---- MODULE Spec2Model ----
(***************************************************************************)
(* The multirun engine of rules_multirun_go: src/internal/multirun.go.     *)
(* The file holds two drafts of the engine, one after the other; both are  *)
(* modelled and `variant' says which one runs:                             *)
(*   variant 1: lines 1-323   (launchCommand / runningProc draft)          *)
(*   variant 2: lines 325-528 (buildCmd / setEnv draft)                    *)
(* The host is one where buildCmd / launchCommand need no interpreter or   *)
(* find one; the children are the environment: each command has a fixed    *)
(* behaviour (whether the OS can start it, its exit status, what it writes *)
(* and whether it reads its standard input to the end before exiting).     *)
(***************************************************************************)
EXTENDS Integers, Sequences, FiniteSets, TLC

\* Largest number of commands in a plan.
MaxCommands == 2

\* Bytes: a and b stand for ordinary bytes, NL for "\n", CR for "\r", SP for " ".
\* What a child may write to its stdout/stderr.
Outputs == { << >>, << "a", "NL" >>, << "a" >>, << "a", "CR", "NL", "b", "NL" >> }

\* What the parent's standard input may hold.
Inputs == { << >>, << "a", "NL" >>, << "a", "NL", "b", "NL" >> }

\* The outputs and inputs of the plans explored with the most commands.
CoreOutputs == { << "a", "NL" >> }
CoreInputs == { << "a", "NL" >> }

\* Argument lists: what a command may declare and what may follow the
\* instructions file on the command line.
ArgLists == { << >>, << "x" >>, << "x", "y" >> }
ExtraArgLists == { << >>, << "e" >>, << "e", "f" >> }

\* The argument lists of the plans explored with the most commands.
CoreArgLists == { << "x" >> }
CoreExtraArgLists == { << "e" >> }

\* Most interrupts the environment sends to the engine in one run.
MaxInterrupts == 2

\* Capacity of the channel signal.Notify delivers interrupts to.
ChanCap == 1

VARIABLES
  plan,      \* the instructions file and the draft of the engine that reads it
  stdinData, \* [bytes, eof]: the parent's standard input, and whether it ends
  mainpc,    \* position of the main goroutine
  idx,       \* index of the executor's current loop
  success,   \* the aggregate flag of runParallel
  ret,       \* what the executor returned: "none", "true", "false"
  exitCode,  \* -1 while the engine runs, then its exit status
  attempts,  \* commands for which Run/Start was called, in call order
  stdout,    \* the writes made to the parent's standard output, in order
  child,     \* per command: "none", "running", "exited", "failed"
  childIn,   \* per command: the bytes delivered to the child's standard input
  pipe,      \* per command: bytes the child wrote to its stdout pipe, unread
  procs,     \* runParallel's procs list (command indices)
  stdinW,    \* per command: parent's write end of the child's stdin pipe
  outR,      \* per command: parent's read end of the child's stdout pipe
  join,      \* variant 1: position of each collect goroutine
  copy,      \* variant 1: state of each io.Copy goroutine
  drain,     \* variant 2: position of each drain goroutine
  captured,  \* per command: what the parent has accumulated of its output
  mu,        \* holder of the mutex, 0 when free
  fwd,       \* the forwardStdin goroutine: [pc, lines, k, line]
  load,      \* how main's reading of its arguments and instructions file ends
  extraArgs, \* os.Args[2:]
  declArgs,  \* per command: the args the instructions file declares
  args,      \* per command: the Args field of the decoded command
  argv,      \* per command: the argument vectors given to exec.Command
  ran,       \* the executors main has called
  waited,    \* commands whose Wait has returned after the child's exit
  sig,       \* the interrupt channel and its goroutine: [pc, pending, received]
  gotSig,    \* per command: interrupts delivered to the child
  owed       \* per command: interrupts the parent received while it ran

envVars  == << plan, stdinData, load, extraArgs, declArgs >>
mainVars == << mainpc, idx, success, ret, exitCode >>
procVars == << child, childIn, pipe, procs, stdinW, outR >>
taskVars == << join, copy, drain, captured, mu >>
sigVars  == << sig, gotSig, owed >>
vars == << plan, stdinData, mainpc, idx, success, ret, exitCode, attempts,
           stdout, child, childIn, pipe, procs, stdinW, outR, join, copy,
           drain, captured, mu, fwd, load, extraArgs, declArgs, args, argv,
           ran, waited, sig, gotSig, owed >>

----------------------------------------------------------------------------
\* A command (commandBlob / Command) is reduced to what its child does once
\* resolved: whether the OS can start it, its exit status, what it writes to
\* its stdout/stderr, and whether it reads its stdin to the end before exiting.
N == Len(plan.Commands)
Cmds == 1..N
Cmd(i) == plan.Commands[i]

\* One write call on the parent's standard output.
Write(who, kind, data) == [ who |-> who, kind |-> kind, data |-> data ]

\* A command's tag, as bytes; the write's `who' says whose tag it is.
Tag == << "T" >>

----------------------------------------------------------------------------
\* bufio.ScanLines as bufio.Scanner applies it: the data is cut at each "\n",
\* one trailing "\r" of a line is dropped, and what follows the last "\n" is
\* a line only at end of input and only when it is not empty.
DropCR(line) ==
  IF Len(line) > 0 /\ line[Len(line)] = "CR" THEN SubSeq(line, 1, Len(line) - 1)
  ELSE line

FirstNL(data) ==
  IF \E j \in 1..Len(data) : data[j] = "NL"
  THEN CHOOSE j \in 1..Len(data) :
         data[j] = "NL" /\ \A m \in 1..(j - 1) : data[m] # "NL"
  ELSE 0

RECURSIVE ScanLines(_, _)
ScanLines(data, atEOF) ==
  IF FirstNL(data) > 0
  THEN << DropCR(SubSeq(data, 1, FirstNL(data) - 1)) >>
         \o ScanLines(SubSeq(data, FirstNL(data) + 1, Len(data)), atEOF)
  ELSE IF atEOF /\ Len(data) > 0 THEN << DropCR(data) >> ELSE << >>

\* scanner.Text() + "\n" over every line, concatenated.
RECURSIVE JoinLines(_)
JoinLines(lines) ==
  IF lines = << >> THEN << >>
  ELSE Head(lines) \o << "NL" >> \o JoinLines(Tail(lines))

\* strings.TrimSpace.
IsSpace(b) == b \in { "NL", "CR", "SP" }

RECURSIVE TrimLeft(_)
TrimLeft(s) == IF Len(s) > 0 /\ IsSpace(s[1]) THEN TrimLeft(Tail(s)) ELSE s

RECURSIVE TrimRight(_)
TrimRight(s) ==
  IF Len(s) > 0 /\ IsSpace(s[Len(s)]) THEN TrimRight(SubSeq(s, 1, Len(s) - 1))
  ELSE s

TrimSpace(s) == TrimRight(TrimLeft(s))

----------------------------------------------------------------------------
\* The plans and inputs explored.  runSerial reads neither BufferOutput nor
\* ForwardStdin nor the parent's stdin, and runParallel does not read
\* KeepGoing, so those are fixed where they are not read.  A command the OS
\* cannot start has no behaviour of its own, and whether a child reads its
\* standard input to the end shows only when it is given a pipe.
Behaviours(outs) ==
  { [ start |-> FALSE, code |-> 0, out |-> << >>, readsStdin |-> FALSE ] }
  \cup [ start : { TRUE }, code : {0, 1}, out : outs, readsStdin : BOOLEAN ]

CommandLists(outs) ==
  UNION { [1..n -> Behaviours(outs)] : n \in 0..MaxCommands }

Plans(outs) ==
  { p \in [ variant : {1, 2}, Jobs : {0, 1, 2}, KeepGoing : BOOLEAN,
            PrintCommand : BOOLEAN, BufferOutput : BOOLEAN,
            ForwardStdin : BOOLEAN, Commands : CommandLists(outs) ] :
      /\ p.Jobs # 0 => (~p.BufferOutput /\ ~p.ForwardStdin)
      /\ p.Jobs = 0 => ~p.KeepGoing
      /\ ~p.ForwardStdin =>
           \A i \in 1..Len(p.Commands) : ~p.Commands[i].readsStdin }

StdinChoices(p, ins) ==
  IF p.ForwardStdin THEN [ bytes : ins, eof : BOOLEAN ]
  ELSE { [ bytes |-> << >>, eof |-> TRUE ] }

\* How main's reading of its input ends: "ok", or no instructions argument,
\* a file that cannot be opened or read, a document that does not decode,
\* or (variant 1) no runfiles resolver.
Loads(v) ==
  { "ok", "noarg", "unreadable", "malformed" }
  \cup (IF v = 1 THEN { "norunfiles" } ELSE { })

\* The zero value of instructionsFile / Instructions: what main holds when
\* nothing was decoded.  A document that does not decode may have been
\* decoded in part, so main may hold any plan when the decoder fails.
ZeroPlan(v) ==
  [ variant |-> v, Jobs |-> 0, KeepGoing |-> FALSE, PrintCommand |-> FALSE,
    BufferOutput |-> FALSE, ForwardStdin |-> FALSE, Commands |-> << >> ]

InitFrom(plans, ins, lists, extras) ==
  /\ \E v \in {1, 2} :
       /\ load \in Loads(v)
       /\ plan \in IF load \in { "ok", "malformed" }
                   THEN { p \in plans : p.variant = v }
                   ELSE { ZeroPlan(v) }
  /\ stdinData \in StdinChoices(plan, ins)
  /\ extraArgs \in extras
  /\ declArgs \in [1..Len(plan.Commands) -> lists]
  /\ args = declArgs
  /\ argv = [i \in 1..Len(plan.Commands) |-> << >>]
  /\ ran = { }
  /\ waited = { }
  /\ sig = [ pc |-> "none", pending |-> 0, received |-> 0 ]
  /\ gotSig = [i \in 1..Len(plan.Commands) |-> 0]
  /\ owed = [i \in 1..Len(plan.Commands) |-> 0]
  /\ mainpc = "start"
  /\ idx = 1
  /\ success = TRUE
  /\ ret = "none"
  /\ exitCode = -1
  /\ attempts = << >>
  /\ stdout = << >>
  /\ child = [i \in 1..Len(plan.Commands) |-> "none"]
  /\ childIn = [i \in 1..Len(plan.Commands) |-> << >>]
  /\ pipe = [i \in 1..Len(plan.Commands) |-> << >>]
  /\ procs = << >>
  /\ stdinW = [i \in 1..Len(plan.Commands) |-> "none"]
  /\ outR = [i \in 1..Len(plan.Commands) |-> "none"]
  /\ join = [i \in 1..Len(plan.Commands) |-> "none"]
  /\ copy = [i \in 1..Len(plan.Commands) |-> "none"]
  /\ drain = [i \in 1..Len(plan.Commands) |-> "none"]
  /\ captured = [i \in 1..Len(plan.Commands) |-> << >>]
  /\ mu = 0
  /\ fwd = [ pc |-> "none", lines |-> << >>, k |-> 1, line |-> << >> ]

InitWith(outs, ins) ==
  InitFrom(Plans(outs), ins, CoreArgLists, CoreExtraArgLists)

Init == InitWith(CoreOutputs, CoreInputs)

\* The engine's process is running: no goroutine takes a step after it ends.
Alive == mainpc \notin { "exited", "crashed", "killed" }

\* The parent's end of every pipe closes with the process.
ClosedAtExit(ends) ==
  [i \in DOMAIN ends |-> IF ends[i] = "open" THEN "closed" ELSE ends[i]]

----------------------------------------------------------------------------
\* main up to the decoded instructions: with no argument, no resolver, a
\* file it cannot read or a document it cannot decode, it exits with 1.
LoadFailsOnlyWithoutArgument == load = "noarg"

LoadFails == load # "ok"

MainLoad ==
  /\ mainpc = "start"
  /\ IF LoadFails
     THEN /\ mainpc' = "exited"
          /\ exitCode' = 1
     ELSE /\ mainpc' = "main"
          /\ exitCode' = exitCode
  /\ UNCHANGED << envVars, idx, success, ret, attempts, stdout, procVars,
                  taskVars, fwd, ran, args, argv, waited, sigVars >>

\* The extra arguments go after a command's own.
PrependExtra(a) == extraArgs \o a

AppendExtra(a) == a \o extraArgs

\* The executor main calls: the concurrent one when Jobs is 0, else the
\* serial one.
SelectedExecutorByOne == IF plan.Jobs = 1 THEN "serial" ELSE "parallel"

SelectedExecutor == IF plan.Jobs = 0 THEN "parallel" ELSE "serial"

\* main: variant 2 appends the extra arguments to every command's Args
\* (variant 1 hands them to the executor); the executor is chosen by Jobs.
MainDispatch ==
  /\ mainpc = "main"
  /\ args' = IF plan.variant = 2 THEN [i \in Cmds |-> AppendExtra(args[i])]
             ELSE args
  /\ ran' = ran \cup { SelectedExecutor }
  /\ mainpc' = IF SelectedExecutor = "parallel"
               THEN (IF plan.variant = 1 THEN "v1launch" ELSE "v2build")
               ELSE "serial"
  /\ UNCHANGED << envVars, idx, success, ret, exitCode, attempts, stdout,
                  procVars, taskVars, fwd >>
  /\ UNCHANGED << argv, waited, sigVars >>

\* main: the exit status is 0 when the executor returned true, else 1.
MainExit ==
  /\ mainpc = "returned"
  /\ mainpc' = "exited"
  /\ exitCode' = IF ret = "true" THEN 0 ELSE 1
  /\ stdinW' = ClosedAtExit(stdinW)
  /\ outR' = ClosedAtExit(outR)
  /\ UNCHANGED << envVars, idx, success, ret, attempts, stdout, child, childIn,
                  pipe, procs, taskVars, fwd >>
  /\ UNCHANGED << ran, args, argv, waited, sigVars >>

\* An unrecovered panic in any goroutine ends the process with status 2.
Panic ==
  /\ mainpc' = "crashed"
  /\ exitCode' = 2
  /\ stdinW' = ClosedAtExit(stdinW)
  /\ outR' = ClosedAtExit(outR)

----------------------------------------------------------------------------
\* The arguments of exec.Command: launchCommand appends the extra arguments
\* to a copy of the command's Args, buildCmd takes the command's Args as
\* main left them.
BuildArgv(i) == IF plan.variant = 1 THEN AppendExtra(args[i]) ELSE args[i]

\* A child's standard input is at its end: it has no pipe (exec gives it the
\* null device), or every write end of its pipe is closed.
StdinAtEOF(i) == stdinW[i] # "open"

\* Where a child's stdout and stderr go: the parent's own streams, a pipe the
\* parent reads, or nowhere (launchCommand leaves cmd.Stdout nil when
\* pipeStdout is set, and exec then gives the child the null device).
Sink(i) ==
  IF plan.Jobs = 0 /\ plan.BufferOutput
  THEN (IF plan.variant = 1 THEN "null" ELSE "pipe")
  ELSE "parent"

\* A running child writes what it has to write and exits; one that reads its
\* standard input to the end does so only once that input is at its end.
\* The children are followed for as long as the engine's process lives.
ChildExit(i) ==
  /\ Alive
  /\ child[i] = "running"
  /\ Cmd(i).readsStdin => StdinAtEOF(i)
  /\ child' = [child EXCEPT ![i] = "exited"]
  /\ stdout' = IF Sink(i) = "parent" /\ Cmd(i).out # << >>
               THEN Append(stdout, Write(i, "raw", Cmd(i).out))
               ELSE stdout
  /\ pipe' = IF Sink(i) = "pipe" /\ outR[i] = "open"
             THEN [pipe EXCEPT ![i] = Cmd(i).out]
             ELSE pipe
  /\ UNCHANGED << envVars, mainVars, attempts, childIn, procs, stdinW, outR,
                  taskVars, fwd >>
  /\ UNCHANGED << ran, args, argv, waited, sigVars >>

----------------------------------------------------------------------------
\* Serial execution.

\* A plausible slip: the loop never stops on an error.
SerialOnErrorNeverStops(kind) == "next"

\* A plausible slip: KeepGoing is not consulted, any error stops the loop.
SerialOnErrorAlwaysStops(kind) == IF kind = "nil" THEN "next" ELSE "stop"

\* What cmd.Run() returned: "nil", "exit" (an *exec.ExitError: the child ran
\* and exited nonzero) or "launch" (the OS could not start the executable).
\* What runSerial does with it: "stop" (return false) or "next".
\*   variant 1: only an ExitError is looked at; it stops unless KeepGoing.
\*   variant 2: any error stops unless KeepGoing.
SerialOnError(kind) ==
  IF kind = "nil" THEN "next"
  ELSE IF plan.variant = 1
       THEN (IF kind = "exit" /\ ~plan.KeepGoing THEN "stop" ELSE "next")
       ELSE (IF ~plan.KeepGoing THEN "stop" ELSE "next")

\* The loop goes on to the next command, or runSerial returns false.
SerialAfter(kind) ==
  IF SerialOnError(kind) = "stop"
  THEN /\ ret' = "false"
       /\ mainpc' = "returned"
       /\ idx' = idx
  ELSE /\ ret' = ret
       /\ mainpc' = "serial"
       /\ idx' = idx + 1

\* A plausible slip: the command is started with cmd.Start() and the loop
\* goes on without waiting for it.
SerialStartNoWait ==
  /\ mainpc = "serial"
  /\ idx <= N
  /\ stdout' = IF plan.PrintCommand
               THEN Append(stdout, Write(idx, "tag", Tag \o << "NL" >>))
               ELSE stdout
  /\ attempts' = Append(attempts, idx)
  /\ argv' = [argv EXCEPT ![idx] = Append(@, BuildArgv(idx))]
  /\ child' = [child EXCEPT ![idx] = IF Cmd(idx).start THEN "running" ELSE "failed"]
  /\ idx' = idx + 1
  /\ UNCHANGED << envVars, mainpc, success, ret, exitCode, childIn, pipe, procs,
                  stdinW, outR, taskVars, fwd, ran, args, waited, sigVars >>

\* One iteration up to the start of the child: the tag is printed, then
\* cmd.Run() starts the command.  A command the OS cannot start makes Run
\* return at once.
SerialStart ==
  /\ mainpc = "serial"
  /\ idx <= N
  /\ stdout' = IF plan.PrintCommand
               THEN Append(stdout, Write(idx, "tag", Tag \o << "NL" >>))
               ELSE stdout
  /\ attempts' = Append(attempts, idx)
  /\ argv' = [argv EXCEPT ![idx] = Append(@, BuildArgv(idx))]
  /\ IF Cmd(idx).start
     THEN /\ child' = [child EXCEPT ![idx] = "running"]
          /\ mainpc' = "serialwait"
          /\ UNCHANGED << idx, ret >>
     ELSE /\ child' = [child EXCEPT ![idx] = "failed"]
          /\ SerialAfter("launch")
  /\ UNCHANGED << envVars, success, exitCode, childIn, pipe, procs, stdinW,
                  outR, taskVars, fwd >>
  /\ UNCHANGED << ran, args, waited, sigVars >>

\* cmd.Run() returns once the child has exited.
SerialWait ==
  /\ mainpc = "serialwait"
  /\ child[idx] = "exited"
  /\ SerialAfter(IF Cmd(idx).code = 0 THEN "nil" ELSE "exit")
  /\ UNCHANGED << envVars, success, exitCode, attempts, stdout, procVars,
                  taskVars, fwd >>
  /\ UNCHANGED << ran, args, argv, waited, sigVars >>

\* The loop is over: runSerial returns true.
SerialReturn ==
  /\ mainpc = "serial"
  /\ idx > N
  /\ ret' = "true"
  /\ mainpc' = "returned"
  /\ UNCHANGED << envVars, idx, success, exitCode, attempts, stdout, procVars,
                  taskVars, fwd >>
  /\ UNCHANGED << ran, args, argv, waited, sigVars >>

----------------------------------------------------------------------------
\* Parallel execution, variant 1.

\* Which end of the child's stdin pipe the forwarder is given.  Variant 1
\* overwrites rp.stdin with cmd.Stdin, which StdinPipe set to the pipe's READ
\* end (a file the parent closes in Start); variant 2 keeps what StdinPipe
\* returned, the write end.
RpStdin == IF plan.variant = 1 THEN "read" ELSE "write"

\* A plausible slip: a failed Start leaves the launch loop (break) instead
\* of going on to the next command (continue).
LaunchNextBreaks(started) == IF started THEN idx + 1 ELSE N + 1

\* Where the launch loop goes after a command: on to the next one, whether
\* the command started or not (continue).
LaunchNext(started) == idx + 1

\* A plausible slip: the error of Wait is dropped.
WaitFailedIgnored(i) == FALSE

\* cmd.Wait() returned an error: the child exited nonzero, or the command
\* was never started.
WaitFailed(i) == child[i] = "failed" \/ Cmd(i).code # 0

\* One iteration of the launch loop: launchCommand, then cmd.Start().
V1Launch ==
  /\ mainpc = "v1launch"
  /\ idx <= N
  /\ attempts' = Append(attempts, idx)
  /\ argv' = [argv EXCEPT ![idx] = Append(@, BuildArgv(idx))]
  /\ idx' = LaunchNext(Cmd(idx).start)
  /\ IF Cmd(idx).start
     THEN /\ child' = [child EXCEPT ![idx] = "running"]
          /\ procs' = Append(procs, idx)
          /\ stdinW' = IF plan.ForwardStdin
                       THEN [stdinW EXCEPT ![idx] = "open"] ELSE stdinW
          /\ success' = success
     ELSE /\ child' = [child EXCEPT ![idx] = "failed"]
          /\ procs' = procs
          /\ stdinW' = IF plan.ForwardStdin
                       THEN [stdinW EXCEPT ![idx] = "closed"] ELSE stdinW
          /\ success' = FALSE
  /\ UNCHANGED << envVars, mainpc, ret, exitCode, stdout, childIn, pipe, outR,
                  taskVars, fwd >>
  /\ UNCHANGED << ran, args, waited, sigVars >>

\* After the loop: the forwarder is started when ForwardStdin, and one
\* collect goroutine per entry of procs.
V1Spawn ==
  /\ mainpc = "v1launch"
  /\ idx > N
  /\ mainpc' = "v1wgwait"
  /\ fwd' = IF plan.ForwardStdin
            THEN [fwd EXCEPT !.pc = "scan",
                             !.lines = ScanLines(stdinData.bytes, stdinData.eof)]
            ELSE fwd
  /\ join' = [i \in Cmds |->
                IF \E j \in 1..Len(procs) : procs[j] = i THEN "begin" ELSE join[i]]
  /\ sig' = [sig EXCEPT !.pc = "waiting"]
  /\ UNCHANGED << envVars, idx, success, ret, exitCode, attempts, stdout,
                  procVars, copy, drain, captured, mu >>
  /\ UNCHANGED << ran, args, argv, waited, gotSig, owed >>

\* A collect goroutine starts.  With pipeStdout it calls StdoutPipe on a
\* command that is already started, which fails and yields a nil reader, and
\* hands that reader to a new io.Copy goroutine.
JoinBegin(i) ==
  /\ Alive
  /\ join[i] = "begin"
  /\ join' = [join EXCEPT ![i] = "wait"]
  /\ copy' = IF plan.BufferOutput THEN [copy EXCEPT ![i] = "ready"] ELSE copy
  /\ UNCHANGED << envVars, mainVars, attempts, stdout, procVars, drain,
                  captured, mu, fwd >>
  /\ UNCHANGED << ran, args, argv, waited, sigVars >>

\* io.Copy reads from the nil reader: a nil dereference, which panics.
CopyPanic(i) ==
  /\ Alive
  /\ copy[i] = "ready"
  /\ copy' = [copy EXCEPT ![i] = "panicked"]
  /\ Panic
  /\ UNCHANGED << envVars, idx, success, ret, attempts, stdout, child, childIn,
                  pipe, procs, join, drain, captured, mu, fwd >>
  /\ UNCHANGED << ran, args, argv, waited, sigVars >>

\* rp.cmd.Wait() returns once the child has exited, and closes the parent's
\* write end of the child's stdin pipe; then mu.Lock().
JoinWait(i) ==
  /\ Alive
  /\ join[i] = "wait"
  /\ child[i] = "exited"
  /\ mu = 0
  /\ mu' = i
  /\ join' = [join EXCEPT ![i] = "emit"]
  /\ waited' = waited \cup { i }
  /\ stdinW' = [stdinW EXCEPT ![i] = IF @ = "open" THEN "closed" ELSE @]
  /\ UNCHANGED << envVars, mainVars, attempts, stdout, child, childIn, pipe,
                  procs, outR, copy, drain, captured, fwd >>
  /\ UNCHANGED << ran, args, argv, sigVars >>

\* The critical section, entered with mu held: the tag is printed when
\* pipeStdout and PrintCommand, then what was captured, trimmed, when there
\* is any; a Wait error (the child exited nonzero) clears the flag;
\* mu.Unlock().
JoinEmit(i) ==
  /\ Alive
  /\ join[i] = "emit"
  /\ mu = i
  /\ stdout' = stdout
       \o (IF plan.BufferOutput /\ plan.PrintCommand
           THEN << Write(i, "tag", Tag \o << "NL" >>) >> ELSE << >>)
       \o (IF Len(captured[i]) > 0
           THEN << Write(i, "out", TrimSpace(captured[i]) \o << "NL" >>) >>
           ELSE << >>)
  /\ success' = IF WaitFailed(i) THEN FALSE ELSE success
  /\ mu' = 0
  /\ join' = [join EXCEPT ![i] = "done"]
  /\ UNCHANGED << envVars, mainpc, idx, ret, exitCode, attempts, procVars,
                  copy, drain, captured, fwd >>
  /\ UNCHANGED << ran, args, argv, waited, sigVars >>

\* A plausible slip: runParallel does not wait for its collect goroutines.
WgDoneNotAwaited == TRUE

\* wg.Wait() returns: every collect goroutine has called wg.Done().
WgDone == \A i \in Cmds : join[i] \in { "none", "done" }

\* wg.Wait() is over: runParallel returns the flag.
V1Return ==
  /\ mainpc = "v1wgwait"
  /\ WgDone
  /\ ret' = IF success THEN "true" ELSE "false"
  /\ mainpc' = "returned"
  /\ UNCHANGED << envVars, idx, success, exitCode, attempts, stdout, procVars,
                  taskVars, fwd >>
  /\ UNCHANGED << ran, args, argv, waited, sigVars >>

----------------------------------------------------------------------------
\* Parallel execution, variant 2.

\* One iteration of the build loop: the tag is printed when PrintCommand and
\* BufferOutput; with BufferOutput the stdout pipe is made and its drain
\* goroutine started; with ForwardStdin the stdin pipe is made; the command
\* is appended to procs.  Nothing is started yet.
V2Build ==
  /\ mainpc = "v2build"
  /\ idx <= N
  /\ stdout' = IF plan.PrintCommand /\ plan.BufferOutput
               THEN Append(stdout, Write(idx, "launchtag", Tag \o << "NL" >>))
               ELSE stdout
  /\ outR' = IF plan.BufferOutput THEN [outR EXCEPT ![idx] = "open"] ELSE outR
  /\ drain' = IF plan.BufferOutput THEN [drain EXCEPT ![idx] = "scan"] ELSE drain
  /\ stdinW' = IF plan.ForwardStdin THEN [stdinW EXCEPT ![idx] = "open"] ELSE stdinW
  /\ procs' = Append(procs, idx)
  /\ argv' = [argv EXCEPT ![idx] = Append(@, BuildArgv(idx))]
  /\ idx' = idx + 1
  /\ UNCHANGED << envVars, mainpc, success, ret, exitCode, attempts, child,
                  childIn, pipe, join, copy, captured, mu, fwd >>
  /\ UNCHANGED << ran, args, waited, sigVars >>

\* The build loop is over.
V2BuildDone ==
  /\ mainpc = "v2build"
  /\ idx > N
  /\ mainpc' = "v2start"
  /\ idx' = 1
  /\ UNCHANGED << envVars, success, ret, exitCode, attempts, stdout, procVars,
                  taskVars, fwd >>
  /\ UNCHANGED << ran, args, argv, waited, sigVars >>

\* One iteration of the start loop: cmd.Start().  A failed Start clears the
\* flag, and exec closes both ends of the command's pipes.
V2Start ==
  /\ mainpc = "v2start"
  /\ idx <= Len(procs)
  /\ attempts' = Append(attempts, procs[idx])
  /\ idx' = idx + 1
  /\ IF Cmd(procs[idx]).start
     THEN /\ child' = [child EXCEPT ![procs[idx]] = "running"]
          /\ UNCHANGED << success, stdinW, outR >>
     ELSE /\ child' = [child EXCEPT ![procs[idx]] = "failed"]
          /\ success' = FALSE
          /\ stdinW' = [stdinW EXCEPT ![procs[idx]] = IF @ = "open" THEN "closed" ELSE @]
          /\ outR' = [outR EXCEPT ![procs[idx]] = IF @ = "open" THEN "closed" ELSE @]
  /\ UNCHANGED << envVars, mainpc, ret, exitCode, stdout, childIn, pipe, procs,
                  taskVars, fwd >>
  /\ UNCHANGED << ran, args, argv, waited, sigVars >>

\* After the start loop the forwarder is started when ForwardStdin.
V2Spawn ==
  /\ mainpc = "v2start"
  /\ idx > Len(procs)
  /\ mainpc' = "v2wait"
  /\ idx' = 1
  /\ sig' = [sig EXCEPT !.pc = "waiting"]
  /\ fwd' = IF plan.ForwardStdin
            THEN [fwd EXCEPT !.pc = "scan",
                             !.lines = ScanLines(stdinData.bytes, stdinData.eof)]
            ELSE fwd
  /\ UNCHANGED << envVars, success, ret, exitCode, attempts, stdout, procVars,
                  taskVars >>
  /\ UNCHANGED << ran, args, argv, waited, gotSig, owed >>

\* One iteration of the wait loop: cmd.Wait() returns once the child has
\* exited (at once, with an error, for a command that did not start) and
\* closes the parent's ends of the child's pipes; an error clears the flag.
V2Wait ==
  /\ mainpc = "v2wait"
  /\ idx <= Len(procs)
  /\ child[procs[idx]] \in { "exited", "failed" }
  /\ waited' = IF child[procs[idx]] = "exited" THEN waited \cup { procs[idx] }
               ELSE waited
  /\ success' = IF WaitFailed(procs[idx]) THEN FALSE ELSE success
  /\ stdinW' = [stdinW EXCEPT ![procs[idx]] = IF @ = "open" THEN "closed" ELSE @]
  /\ outR' = [outR EXCEPT ![procs[idx]] = IF @ = "open" THEN "closed" ELSE @]
  /\ idx' = idx + 1
  /\ UNCHANGED << envVars, mainpc, ret, exitCode, attempts, stdout, child,
                  childIn, pipe, procs, taskVars, fwd >>
  /\ UNCHANGED << ran, args, argv, sigVars >>

\* wg.Wait() is over: runParallel returns the flag.
V2Return ==
  /\ mainpc = "v2wait"
  /\ idx > Len(procs)
  /\ \A i \in Cmds : drain[i] \in { "none", "done" }
  /\ ret' = IF success THEN "true" ELSE "false"
  /\ mainpc' = "returned"
  /\ UNCHANGED << envVars, idx, success, exitCode, attempts, stdout, procVars,
                  taskVars, fwd >>
  /\ UNCHANGED << ran, args, argv, waited, sigVars >>

\* The drain goroutine's scanner reads what is in the pipe.
V2DrainRead(i) ==
  /\ Alive
  /\ drain[i] = "scan"
  /\ outR[i] = "open"
  /\ pipe[i] # << >>
  /\ captured' = [captured EXCEPT ![i] = @ \o pipe[i]]
  /\ pipe' = [pipe EXCEPT ![i] = << >>]
  /\ UNCHANGED << envVars, mainVars, attempts, stdout, child, childIn, procs,
                  stdinW, outR, join, copy, drain, mu, fwd >>
  /\ UNCHANGED << ran, args, argv, waited, sigVars >>

\* The scanner stops: the pipe is empty and nothing holds its write end any
\* more, or the read end was closed under it (by Wait, or by a failed Start),
\* in which case what was still in the pipe is never read.  Then mu.Lock().
V2DrainLock(i) ==
  /\ Alive
  /\ drain[i] = "scan"
  /\ \/ outR[i] = "closed"
     \/ pipe[i] = << >> /\ child[i] = "exited"
  /\ mu = 0
  /\ mu' = i
  /\ drain' = [drain EXCEPT ![i] = "emit"]
  /\ UNCHANGED << envVars, mainVars, attempts, stdout, procVars, join, copy,
                  captured, fwd >>
  /\ UNCHANGED << ran, args, argv, waited, sigVars >>

\* A plausible slip: the header is printed under the mutex and the body
\* after the mutex is released, as two writes.
V2DrainEmitSplit(i) ==
  /\ Alive
  /\ \/ /\ drain[i] = "emit"
        /\ mu = i
        /\ stdout' = Append(stdout, Write(i, "block", << "[" >> \o Tag \o << "]", "NL" >>))
        /\ mu' = 0
        /\ drain' = [drain EXCEPT ![i] = "body"]
     \/ /\ drain[i] = "body"
        /\ stdout' = Append(stdout,
                        Write(i, "block", JoinLines(ScanLines(captured[i], TRUE))))
        /\ mu' = mu
        /\ drain' = [drain EXCEPT ![i] = "done"]
  /\ UNCHANGED << envVars, mainVars, attempts, procVars, join, copy, captured,
                  fwd >>
  /\ UNCHANGED << ran, args, argv, waited, sigVars >>

\* fmt.Printf("[%s]\n%s", tag, buf.String()), one write, then mu.Unlock().
\* buf holds scanner.Text() + "\n" for every line scanned.
V2DrainEmit(i) ==
  /\ Alive
  /\ drain[i] = "emit"
  /\ mu = i
  /\ stdout' = Append(stdout,
                 Write(i, "block", << "[" >> \o Tag \o << "]", "NL" >>
                                     \o JoinLines(ScanLines(captured[i], TRUE))))
  /\ mu' = 0
  /\ drain' = [drain EXCEPT ![i] = "done"]
  /\ UNCHANGED << envVars, mainVars, attempts, procVars, join, copy, captured,
                  fwd >>
  /\ UNCHANGED << ran, args, argv, waited, sigVars >>

----------------------------------------------------------------------------
\* The stdin forwarder (both variants iterate over the commands of procs).

\* scanner.Scan() yields the next line of the parent's standard input.
FwdScan ==
  /\ Alive
  /\ fwd.pc = "scan"
  /\ fwd.lines # << >>
  /\ fwd' = [fwd EXCEPT !.lines = Tail(@),
                        !.line = Head(fwd.lines) \o << "NL" >>,
                        !.k = 1,
                        !.pc = IF procs = << >> THEN "scan" ELSE "write"]
  /\ UNCHANGED << envVars, mainVars, attempts, stdout, procVars, taskVars >>
  /\ UNCHANGED << ran, args, argv, waited, sigVars >>

\* The line is written to the k-th command's handle.  It reaches the child
\* when the handle is the write end of an open pipe whose child is running;
\* the error of any other write is dropped.  Variant 2 then asserts that the
\* writer has a Flush method, which no pipe end has: the assertion panics.
FwdWrite ==
  /\ Alive
  /\ fwd.pc = "write"
  /\ childIn' = IF /\ RpStdin = "write"
                   /\ stdinW[procs[fwd.k]] = "open"
                   /\ child[procs[fwd.k]] = "running"
                THEN [childIn EXCEPT ![procs[fwd.k]] = @ \o fwd.line]
                ELSE childIn
  /\ IF plan.variant = 2
     THEN /\ Panic
          /\ fwd' = [fwd EXCEPT !.pc = "panicked"]
          /\ UNCHANGED << idx, success, ret >>
     ELSE /\ fwd' = IF fwd.k < Len(procs)
                    THEN [fwd EXCEPT !.k = @ + 1]
                    ELSE [fwd EXCEPT !.pc = "scan"]
          /\ UNCHANGED << mainVars, stdinW, outR >>
  /\ UNCHANGED << envVars, attempts, stdout, child, pipe, procs, taskVars >>
  /\ UNCHANGED << ran, args, argv, waited, sigVars >>

\* The parent's input is at its end: every handle is closed.  Closing the
\* read end, which Start has closed already, closes nothing.
FwdClose ==
  /\ Alive
  /\ fwd.pc = "scan"
  /\ fwd.lines = << >>
  /\ stdinData.eof
  /\ fwd' = [fwd EXCEPT !.pc = "done"]
  /\ stdinW' = [i \in Cmds |->
                  IF RpStdin = "write" /\ stdinW[i] = "open" THEN "closed"
                  ELSE stdinW[i]]
  /\ UNCHANGED << envVars, mainVars, attempts, stdout, child, childIn, pipe,
                  procs, outR, taskVars >>
  /\ UNCHANGED << ran, args, argv, waited, sigVars >>

----------------------------------------------------------------------------
\* Interrupts.  runParallel calls signal.Notify after its launch loop (with
\* the goroutines it starts there); from then on an interrupt is put in the
\* channel when the channel has room and is dropped when it has none.
\* Before that, and in serial mode, the interrupt has its default effect:
\* the engine's process ends.  The children are the environment: the model
\* records what is delivered to them and leaves their behaviour as it is.

\* The environment sends an interrupt to the engine's process.
Interrupt ==
  /\ Alive
  /\ sig.received < MaxInterrupts
  /\ owed' = [i \in Cmds |-> IF child[i] = "running" THEN owed[i] + 1 ELSE owed[i]]
  /\ IF sig.pc = "none"
     THEN /\ sig' = [sig EXCEPT !.received = @ + 1]
          /\ mainpc' = "killed"
          /\ exitCode' = 130
          /\ stdinW' = ClosedAtExit(stdinW)
          /\ outR' = ClosedAtExit(outR)
     ELSE /\ sig' = [sig EXCEPT !.received = @ + 1,
                               !.pending = IF @ < ChanCap THEN @ + 1 ELSE @]
          /\ UNCHANGED << mainpc, exitCode, stdinW, outR >>
  /\ UNCHANGED << envVars, idx, success, ret, attempts, stdout, child, childIn,
                  pipe, procs, taskVars, fwd, ran, args, argv, waited, gotSig >>

\* Positions of procs whose command has no process: Start failed, so its
\* Process field is nil.
NoProcess == { k \in 1..Len(procs) : child[procs[k]] \notin { "running", "exited" } }

\* The positions of procs the signal goroutine's loop gets through: all of
\* them, or those before the first nil Process, whose Signal call panics.
Signalled ==
  IF NoProcess = { } THEN 1..Len(procs)
  ELSE { k \in 1..Len(procs) : \A b \in NoProcess : k < b }

\* A plausible slip: the goroutine loops and receives from the channel again.
AfterForwardReceivesAgain == "waiting"

\* Where the signal goroutine is once its loop over procs is over: at its
\* end, for there is no loop around the receive.
AfterForward == "done"

\* The signal goroutine: it receives one interrupt from the channel, calls
\* Process.Signal for each entry of procs, and ends.  The signal reaches
\* the children that are running; the error of a call on a child that has
\* exited is dropped.
SignalTask ==
  /\ Alive
  /\ sig.pc = "waiting"
  /\ sig.pending > 0
  /\ gotSig' = [i \in Cmds |->
                  IF /\ \E k \in Signalled : procs[k] = i
                     /\ child[i] = "running"
                  THEN gotSig[i] + 1 ELSE gotSig[i]]
  /\ IF NoProcess = { }
     THEN /\ sig' = [sig EXCEPT !.pc = AfterForward, !.pending = @ - 1]
          /\ UNCHANGED << mainpc, exitCode, stdinW, outR >>
     ELSE /\ sig' = [sig EXCEPT !.pc = "panicked", !.pending = @ - 1]
          /\ Panic
  /\ UNCHANGED << envVars, idx, success, ret, attempts, stdout, child, childIn,
                  pipe, procs, taskVars, fwd, ran, args, argv, waited, owed >>

----------------------------------------------------------------------------
Next ==
  \/ MainLoad
  \/ MainDispatch
  \/ MainExit
  \/ SerialStart
  \/ SerialWait
  \/ SerialReturn
  \/ V1Launch
  \/ V1Spawn
  \/ V1Return
  \/ V2Build
  \/ V2BuildDone
  \/ V2Start
  \/ V2Spawn
  \/ V2Wait
  \/ V2Return
  \/ FwdScan
  \/ FwdWrite
  \/ FwdClose
  \/ \E i \in Cmds : ChildExit(i)
  \/ \E i \in Cmds : JoinBegin(i)
  \/ \E i \in Cmds : CopyPanic(i)
  \/ \E i \in Cmds : JoinWait(i)
  \/ \E i \in Cmds : JoinEmit(i)
  \/ \E i \in Cmds : V2DrainRead(i)
  \/ \E i \in Cmds : V2DrainLock(i)
  \/ \E i \in Cmds : V2DrainEmit(i)

Spec == Init /\ [][Next]_vars

\* The same runs under the scheduling Go and the operating system give:
\* a goroutine or a child that can take a step is not left waiting forever.
\* Every run of the engine is finite, so this says that a run goes on until
\* no step is possible.
SpecFair == Init /\ [][Next]_vars /\ WF_vars(Next)

\* The same engine over every output and input of Outputs and Inputs.
InitBytes == InitWith(Outputs, Inputs)

SpecBytes == InitBytes /\ [][Next]_vars

\* The building of the argument vectors, over every argument list of
\* ArgLists and ExtraArgLists: the engine from its launch to the start of
\* every command, in both modes, with commands that print nothing.
ArgPlans ==
  { p \in Plans(CoreOutputs) :
      /\ p.Jobs \in {0, 1}
      /\ ~p.KeepGoing /\ ~p.PrintCommand /\ ~p.BufferOutput /\ ~p.ForwardStdin
      /\ \A i \in 1..Len(p.Commands) : p.Commands[i].code = 0 }

InitArgs == InitFrom(ArgPlans, CoreInputs, ArgLists, ExtraArgLists)

NextArgs ==
  \/ MainLoad
  \/ MainDispatch
  \/ SerialStart
  \/ SerialWait
  \/ SerialReturn
  \/ V1Launch
  \/ V2Build
  \/ V2BuildDone
  \/ V2Start
  \/ \E i \in Cmds : ChildExit(i)

SpecArgs == InitArgs /\ [][NextArgs]_vars

\* The concurrent executor with interrupts arriving at any time, over plans
\* that neither buffer output nor forward standard input.
SignalPlans ==
  { p \in Plans(CoreOutputs) :
      p.Jobs = 0 /\ ~p.PrintCommand /\ ~p.BufferOutput /\ ~p.ForwardStdin }

InitSignal == InitFrom(SignalPlans, CoreInputs, CoreArgLists, CoreExtraArgLists)

NextSignal ==
  \/ MainLoad
  \/ MainDispatch
  \/ MainExit
  \/ V1Launch
  \/ V1Spawn
  \/ V1Return
  \/ V2Build
  \/ V2BuildDone
  \/ V2Start
  \/ V2Spawn
  \/ V2Wait
  \/ V2Return
  \/ Interrupt
  \/ SignalTask
  \/ \E i \in Cmds : ChildExit(i)
  \/ \E i \in Cmds : JoinBegin(i)
  \/ \E i \in Cmds : JoinWait(i)
  \/ \E i \in Cmds : JoinEmit(i)

SpecSignal == InitSignal /\ [][NextSignal]_vars

----------------------------------------------------------------------------
\* Vocabulary of the properties.

Serial == plan.Jobs # 0
Concurrent == plan.Jobs = 0

\* The executor has returned (ret holds its result).
Returned == ret # "none"

\* The commands in declared order.
Declared == [i \in Cmds |-> i]

IsPrefix(s, t) == Len(s) <= Len(t) /\ \A j \in 1..Len(s) : s[j] = t[j]

\* How many times Run/Start was called for command i.
Runs(i) == Cardinality({ j \in 1..Len(attempts) : attempts[j] = i })

\* Command i was run and exited with a nonzero status.
ExitedNonzero(i) == child[i] = "exited" /\ Cmd(i).code # 0

\* Command i fails whenever it is run: the OS cannot start it, or it exits
\* with a nonzero status.
Fails(i) == ~Cmd(i).start \/ Cmd(i).code # 0

\* No command declared after i was started or attempted.
NothingAfter(i) ==
  \A j \in Cmds : j > i => (child[j] = "none" /\ Runs(j) = 0)

----------------------------------------------------------------------------
\* C1: serial mode, keepGoing = false: once a command has exited with a
\* nonzero status no command declared after it is ever started, and when
\* runSerial returns it returns false.
C1_StopsAtFirstNonzeroExit ==
  (Serial /\ ~plan.KeepGoing) =>
    \A i \in Cmds :
      ExitedNonzero(i) =>
        /\ NothingAfter(i)
        /\ Returned => ret = "false"

\* C1 witness: the first of two commands exited nonzero, the engine has
\* exited, and the second command was never started.
C1_Witness ==
  /\ Serial /\ ~plan.KeepGoing /\ N = 2
  /\ ExitedNonzero(1)
  /\ mainpc = "exited" /\ ret = "false" /\ exitCode = 1
  /\ child[2] = "none"

\* C2: serial mode, keepGoing = true: when runSerial returns, it returns
\* false if and only if at least one command failed.
C2_KeepGoingResultIsFailureIffSomeFailed ==
  (Serial /\ plan.KeepGoing /\ Returned) =>
    (ret = "false" <=> \E i \in Cmds : Fails(i))

\* C3: serial mode, keepGoing = true: no command is ever run twice, commands
\* are run in declared order, and when runSerial returns every command of
\* the plan has been run exactly once.
C3_KeepGoingRunsEveryCommandOnce ==
  (Serial /\ plan.KeepGoing) =>
    /\ IsPrefix(attempts, Declared)
    /\ Returned => \A i \in Cmds : Runs(i) = 1

\* C3 witness: with keepGoing, the first command failed and runSerial has
\* returned after running the second one too.
C3_Witness ==
  /\ Serial /\ plan.KeepGoing /\ N = 2
  /\ Fails(1)
  /\ Returned
  /\ attempts = << 1, 2 >>
  /\ child[2] = "exited"

\* C4: serial mode, keepGoing = false: once a command has failed to launch,
\* no command declared after it is started, and when runSerial returns it
\* returns false.
C4_LaunchFailureStopsTheRun ==
  (Serial /\ ~plan.KeepGoing) =>
    \A i \in Cmds :
      child[i] = "failed" =>
        /\ NothingAfter(i)
        /\ Returned => ret = "false"

----------------------------------------------------------------------------
\* The launch phase of runParallel is over.
Launched ==
  /\ ran # { }
  /\ mainpc \in { "v1wgwait", "v2wait", "returned", "exited", "crashed" }

\* C5: concurrent mode: Start is called on the commands in declared order,
\* at most once each, and once the launch phase is over it has been called
\* for every command of the plan, whichever of them failed to start.
C5_StartAttemptedForEveryCommand ==
  Concurrent =>
    /\ IsPrefix(attempts, Declared)
    /\ Launched => \A i \in Cmds : Runs(i) = 1

\* C5 witness: the first command failed to start and the second one was
\* started all the same.
C5_Witness ==
  /\ Concurrent /\ N = 2
  /\ child[1] = "failed"
  /\ child[2] \in { "running", "exited" }
  /\ attempts = << 1, 2 >>

\* C6: concurrent mode: what runParallel returns is true if and only if
\* every command started and exited with status 0.
C6_ParallelResult ==
  (Concurrent /\ Returned) =>
    (ret = "true" <=> \A i \in Cmds : ~Fails(i))

\* C6 witness: both commands started, the second finished first and the
\* first exited nonzero; runParallel returned false.
C6_Witness ==
  /\ Concurrent /\ N = 2
  /\ Cmd(1).start /\ Cmd(1).code # 0
  /\ Cmd(2).start /\ Cmd(2).code = 0
  /\ Returned /\ ret = "false"
  /\ child[1] = "exited" /\ child[2] = "exited"
  /\ ~plan.BufferOutput
  /\ Len(stdout) = 2 /\ stdout[1].who = 2 /\ stdout[2].who = 1

----------------------------------------------------------------------------
\* The task that emits child i's block has finished.
BlockDone(i) == join[i] = "done" \/ drain[i] = "done"

\* The writes of child i's block: the tag line and the captured output that
\* its collect or drain goroutine prints.
BlockKinds == { "tag", "out", "block" }
BlockWrites(i) ==
  { j \in 1..Len(stdout) : stdout[j].who = i /\ stdout[j].kind \in BlockKinds }

\* The output part of a write of a block: a block write of variant 2 starts
\* with the header "[tag]\n".
Payload(w) ==
  IF w.kind = "out" THEN w.data
  ELSE IF w.kind = "block" THEN SubSeq(w.data, 5, Len(w.data))
  ELSE << >>

RECURSIVE EmittedUpTo(_, _)
EmittedUpTo(i, j) ==
  IF j = 0 THEN << >>
  ELSE EmittedUpTo(i, j - 1)
         \o (IF stdout[j].who = i THEN Payload(stdout[j]) ELSE << >>)

\* The captured output emitted for child i.
Emitted(i) == EmittedUpTo(i, Len(stdout))

\* C7: concurrent mode, bufferOutput = true: once the block of a child has
\* been emitted, the output in it is exactly what the child wrote.
C7_BlockIsWhatTheChildWrote ==
  (Concurrent /\ plan.BufferOutput) =>
    \A i \in Cmds :
      (child[i] = "exited" /\ BlockDone(i)) => Emitted(i) = Cmd(i).out

\* C8: concurrent mode, bufferOutput = true: the writes of one child's block
\* are contiguous on the parent's output: no write of another child's block
\* or tag, and no other write, falls between two of them.
C8_BlocksDoNotInterleave ==
  (Concurrent /\ plan.BufferOutput) =>
    \A i \in Cmds :
      \A p \in BlockWrites(i), r \in BlockWrites(i) :
        \A q \in p..r : q \in BlockWrites(i)

\* C8 witness: the blocks of two children are both on the parent's output,
\* the second child's first.
C8_Witness ==
  /\ Concurrent /\ plan.BufferOutput /\ plan.PrintCommand /\ N = 2
  /\ \E p \in BlockWrites(2) : \E q \in BlockWrites(1) : p < q
  /\ BlockDone(1) /\ BlockDone(2)

----------------------------------------------------------------------------
\* All the lines of the parent's input, and those the forwarder has read.
InputLines == ScanLines(stdinData.bytes, stdinData.eof)
LinesRead == SubSeq(InputLines, 1, Len(InputLines) - Len(fwd.lines))

\* The forwarder is not in the middle of handing a line out.
BetweenLines == fwd.pc \in { "scan", "done", "panicked" }

\* C9: concurrent mode, forwardStdin = true: whenever the forwarder is
\* between two lines (or has stopped), a child that is still running has
\* been delivered every line read so far, unmodified and in order.
C9_LinesReachRunningChildren ==
  (Concurrent /\ plan.ForwardStdin /\ BetweenLines) =>
    \A i \in Cmds :
      child[i] = "running" => childIn[i] = JoinLines(LinesRead)

\* C10: concurrent mode, forwardStdin = true: once the forwarder has seen the
\* end of the parent's input and closed the pipes, the write end of no
\* child's stdin pipe is open.
C10_StdinClosedAtEndOfInput ==
  (Concurrent /\ plan.ForwardStdin /\ fwd.pc = "done") =>
    \A i \in Cmds : stdinW[i] # "open"

----------------------------------------------------------------------------
\* C11: in both modes the argument vector a command is started with is its
\* declared arguments followed by the extra arguments of the command line,
\* each extra argument once, and one vector is built per command started.
C11_ArgvIsDeclaredThenExtra ==
  \A i \in Cmds :
    /\ Len(argv[i]) = (IF Runs(i) > 0 \/ (\E k \in 1..Len(procs) : procs[k] = i)
                       THEN 1 ELSE 0)
    /\ \A k \in 1..Len(argv[i]) : argv[i][k] = declArgs[i] \o extraArgs

\* Two commands were started concurrently, one declaring two arguments and
\* one declaring none, with two extra arguments on the command line.
C11_Witness ==
  /\ Concurrent /\ N = 2
  /\ declArgs[1] = << "x", "y" >> /\ declArgs[2] = << >>
  /\ extraArgs = << "e", "f" >>
  /\ child[1] = "running" /\ child[2] = "running"
  /\ argv[1] = << << "x", "y", "e", "f" >> >>
  /\ argv[2] = << << "e", "f" >> >>

----------------------------------------------------------------------------
\* No interrupt is waiting for the signal goroutine to take it.
SignalsSettled == ~(Alive /\ sig.pc = "waiting" /\ sig.pending > 0)

\* C12: in concurrent mode every interrupt the engine receives while
\* children run is forwarded to each child that is still running: once no
\* interrupt is waiting to be taken, a running child has been sent as many
\* interrupts as the engine received while it ran.
C12_InterruptReachesRunningChildren ==
  (Concurrent /\ SignalsSettled) =>
    \A i \in Cmds : child[i] = "running" => gotSig[i] = owed[i]

----------------------------------------------------------------------------
\* The command has a process: its Start succeeded.
Started(i) == child[i] \in { "running", "exited" }

\* C13: runParallel returns only once every child it started has exited and
\* its Wait has returned, and no Wait returns before a start was attempted
\* for every command.
C13_ReturnsAfterEveryChildIsWaitedOn ==
  Concurrent =>
    /\ Returned => \A i \in Cmds : Started(i) => (child[i] = "exited" /\ i \in waited)
    /\ waited # { } => \A i \in Cmds : Runs(i) = 1

\* runParallel has returned after starting two children and waiting on both.
C13_Witness ==
  /\ Concurrent /\ Returned /\ N = 2
  /\ \A i \in Cmds : Started(i)
  /\ waited = {1, 2}

----------------------------------------------------------------------------
\* Positions of main inside each executor.
InSerial == mainpc \in { "serial", "serialwait" }
InParallel == mainpc \in { "v1launch", "v1wgwait", "v2build", "v2start", "v2wait" }

----------------------------------------------------------------------------
\* C15: when the instructions argument is missing, or the file cannot be
\* read, or the document does not decode, the engine exits with 1, calls no
\* executor, and starts no command.
C15_LoadFailureExitsBeforeAnyStart ==
  load # "ok" =>
    /\ mainpc \in { "start", "exited" }
    /\ mainpc = "exited" => exitCode = 1
    /\ ran = { }
    /\ attempts = << >>
    /\ stdout = << >>
    /\ \A i \in Cmds : child[i] = "none" /\ argv[i] = << >>

\* A document naming two commands failed to decode and the engine has
\* exited with 1.
C15_Witness ==
  /\ load = "malformed"
  /\ N = 2
  /\ mainpc = "exited"
  /\ exitCode = 1

----------------------------------------------------------------------------
\* Positions in the parent's output of the writes of one kind for a command.
WritesOf(i, kind) ==
  { p \in 1..Len(stdout) : stdout[p].who = i /\ stdout[p].kind = kind }

----------------------------------------------------------------------------
\* Some child has exited already.
SomeChildExited == \E j \in Cmds : child[j] = "exited"

\* C17: with ForwardStdin, once a child has exited the forwarder neither
\* stops nor brings the run down: between two lines every child that is
\* still running has been given every line read so far, and the result
\* runParallel returns is what the starts and exit statuses alone make it.
C17_EarlyExitDoesNotDisturbTheFanOut ==
  (Concurrent /\ plan.ForwardStdin /\ SomeChildExited) =>
    /\ fwd.pc # "panicked"
    /\ BetweenLines =>
         \A i \in Cmds : child[i] = "running" => childIn[i] = JoinLines(LinesRead)
    /\ Returned => (ret = "true" <=> \A i \in Cmds : ~Fails(i))

----------------------------------------------------------------------------
\* The block written for a command carries the command's tag: as a line of
\* its own written in the critical section (variant 1), or as the header
\* the block's one write begins with (variant 2).
TagInBlock(i) ==
  \/ WritesOf(i, "tag") # { }
  \/ \E p \in WritesOf(i, "block") :
       IsPrefix(<< "[" >> \o Tag \o << "]", "NL" >>, stdout[p].data)

\* C18: concurrent mode with BufferOutput: a command's tag is written as
\* the head of its block exactly when PrintCommand is set, and never apart
\* from the block.
C18_TagOnlyInBlockAndOnlyWhenAsked ==
  (Concurrent /\ plan.BufferOutput) =>
    \A i \in Cmds :
      /\ WritesOf(i, "launchtag") = { }
      /\ BlockDone(i) => (TagInBlock(i) <=> plan.PrintCommand)

----------------------------------------------------------------------------
\* C19: once the launch phase of runParallel is over, every entry of procs
\* (the list the signal goroutine and the join phase go through) is a
\* command whose Start succeeded: a command that failed to launch is not in
\* the list.
C19_ProcsHoldsOnlyStartedCommands ==
  (Concurrent /\ Launched) =>
    \A k \in 1..Len(procs) : Started(procs[k])

----------------------------------------------------------------------------
\* Some child is still running.
SomeChildRunning == \E i \in Cmds : child[i] = "running"

\* C20: with no interrupt, a concurrent run in which every started child
\* exits sooner or later reaches the return of runParallel, whatever the
\* forwarder and the parent's standard input do: either runParallel
\* returns, or some child runs forever.
C20_ParallelEventuallyReturns ==
  (Concurrent /\ load = "ok") => (<>Returned \/ <>[]SomeChildRunning)

----------------------------------------------------------------------------
\* The signal goroutine has forwarded an interrupt: it has gone through
\* procs to its end, or some child has been sent the signal.
FirstInterruptForwarded ==
  sig.pc = "done" \/ \E i \in Cmds : gotSig[i] > 0

\* C21: in concurrent mode the signal goroutine handles one interrupt at
\* most.  No child is ever sent more than one, and once the first has been
\* forwarded no step sends a child anything more, and a further interrupt
\* received by the engine leaves main where it is, alive and with no exit
\* status.
C21_OnlyTheFirstInterruptIsHandled ==
  [][ Concurrent =>
        /\ \A i \in Cmds : gotSig'[i] <= 1
        /\ FirstInterruptForwarded =>
             /\ gotSig' = gotSig
             /\ sig'.received # sig.received =>
                  (mainpc' = mainpc /\ exitCode' = exitCode /\ Alive') ]_vars

\* Two interrupts were received while a child ran; the first was forwarded
\* to it, the second was not, and main is still waiting for the child.
C21_Witness ==
  /\ Concurrent
  /\ sig.pc = "done"
  /\ sig.received = 2
  /\ mainpc \in { "v1wgwait", "v2wait" }
  /\ \E i \in Cmds : child[i] = "running" /\ gotSig[i] = 1 /\ owed[i] = 2
====
